---- MODULE Spec2Model ----
(***************************************************************************)
(* Model of qiskit_metal/qlibrary/qubits/transmon_pocket_6_rounded.py:     *)
(* the rounded-rectangle builder and the TransmonPocket6Rounded component  *)
(* (make_pocket, make_connection_pads, make_connection_pad).               *)
(*                                                                         *)
(* Numbers.  Lengths are integers on a grid; every length the source       *)
(* halves (x / 2, 0.5 * x) is drawn from even values, so each halving is   *)
(* exact and `x \div 2` is the source's `x / 2`.  float(x) keeps the value *)
(* of such a number and is not modelled as a separate step.                *)
(*                                                                         *)
(* Shapes.  A Polygon is a record [type, coords, rx, ry]: `coords` is the  *)
(* closed exterior ring of a core polygon and (rx, ry) are the semi-axes   *)
(* of the round corner grown around it (the result of a round-join         *)
(* buffer); a sharp polygon has rx = ry = 0 and the empty polygon has      *)
(* coords = <<>>.  The arcs of a rounded polygon are kept symbolically, by *)
(* their centres (the core's corners) and radii, instead of as the         *)
(* sixteen-segment polylines the geometry library emits.  A LineString is  *)
(* a record [type, coords].                                                *)
(***************************************************************************)
EXTENDS Integers, Sequences, FiniteSets, TLC

VARIABLES
    p,          \* the component's parsed options (self.p), connection_pads included
    qgeometry,  \* the geometry registered so far, in registration order
    pins,       \* the pins registered so far
    log,        \* the records handed to self.logger
    pc,         \* position of make(): "make_pocket", "make_connection_pads", "done"
    idx,        \* index of the next connection pad make_connection_pads visits
    rr_args,    \* arguments of a direct _rounded_rectangle call
    rr_calls,   \* the buffer calls that call made, in order
    rr_out,     \* the polygon that call returned
    rr_pc       \* "call" before the call, "returned" after it, "idle" when unused

vars == <<p, qgeometry, pins, log, pc, idx, rr_args, rr_calls, rr_out, rr_pc>>

----------------------------------------------------------------------------
(* Bounds of the model *)

MaxHalfDim == 2        \* direct calls: width, height in {2, 4, .., 2 * MaxHalfDim}
MaxOff == 1            \* direct calls: xoff, yoff in -MaxOff .. MaxOff
MaxRadius == 3         \* direct calls: radius in -1 .. MaxRadius
MaxCornerRadius == 1   \* component: corner_radius in 0 .. MaxCornerRadius

----------------------------------------------------------------------------
(* Arithmetic helpers *)

Min(a, b) == IF a <= b THEN a ELSE b
Max(a, b) == IF a >= b THEN a ELSE b
Abs(a) == IF a < 0 THEN -a ELSE a

RECURSIVE SeqMin(_), SeqMax(_)
SeqMin(s) == IF Len(s) = 1 THEN s[1] ELSE Min(s[1], SeqMin(Tail(s)))
SeqMax(s) == IF Len(s) = 1 THEN s[1] ELSE Max(s[1], SeqMax(Tail(s)))

----------------------------------------------------------------------------
(* The geometry library: shapely.geometry.box, Polygon.buffer, bounds *)

EmptyPolygon == [type |-> "Polygon", coords |-> <<>>, rx |-> 0, ry |-> 0]

\* shapely.geometry.box(minx, miny, maxx, maxy): counter-clockwise closed ring
\* starting at (maxx, miny).
_box(minx, miny, maxx, maxy) ==
    [type |-> "Polygon",
     coords |-> << <<maxx, miny>>, <<maxx, maxy>>, <<minx, maxy>>,
                   <<minx, miny>>, <<maxx, miny>> >>,
     rx |-> 0, ry |-> 0]

is_empty(g) == g.coords = <<>>

Xs(g) == [i \in DOMAIN g.coords |-> g.coords[i][1]]
Ys(g) == [i \in DOMAIN g.coords |-> g.coords[i][2]]
RadX(g) == IF g.type = "Polygon" THEN g.rx ELSE 0
RadY(g) == IF g.type = "Polygon" THEN g.ry ELSE 0

\* geometry.bounds: (minx, miny, maxx, maxy); <<>> stands for the bounds of an
\* empty geometry, which has none.
bounds(g) ==
    IF is_empty(g) THEN <<>>
    ELSE << SeqMin(Xs(g)) - RadX(g), SeqMin(Ys(g)) - RadY(g),
            SeqMax(Xs(g)) + RadX(g), SeqMax(Ys(g)) + RadY(g) >>

\* Polygon.buffer(distance, join_style) on an axis-aligned sharp rectangle.
\*   distance < 0, mitre join (2): every side moves inward by |distance|; the
\*     result is empty as soon as opposite sides meet or cross.
\*   distance > 0, round join (1): the ring grows by a quarter circle of that
\*     radius around every corner and by that distance along every side.
\*   The buffer of an empty polygon is empty.
buffer(g, distance, join_style) ==
    IF is_empty(g) THEN EmptyPolygon
    ELSE IF distance = 0 THEN g
    ELSE IF distance < 0 THEN
        LET b == bounds(g)
            d == -distance
        IN  IF 2 * d >= Min(b[3] - b[1], b[4] - b[2])
            THEN EmptyPolygon
            ELSE _box(b[1] + d, b[2] + d, b[3] - d, b[4] - d)
    ELSE [g EXCEPT !.rx = g.rx + distance, !.ry = g.ry + distance]

\* Polygon.contains / covers for a point: pt belongs to the closed shape.
\* (dx, dy) is the offset of pt from the core's bounding box.
covers(g, pt) ==
    /\ ~is_empty(g)
    /\ LET xmin == SeqMin(Xs(g))
           xmax == SeqMax(Xs(g))
           ymin == SeqMin(Ys(g))
           ymax == SeqMax(Ys(g))
           dx == Max(Max(xmin - pt[1], pt[1] - xmax), 0)
           dy == Max(Max(ymin - pt[2], pt[2] - ymax), 0)
       IN  IF g.rx = 0 \/ g.ry = 0
           THEN dx <= g.rx /\ dy <= g.ry
           ELSE (dx * g.ry) * (dx * g.ry) + (dy * g.rx) * (dy * g.rx)
                    <= (g.rx * g.ry) * (g.rx * g.ry)

----------------------------------------------------------------------------
(* _rounded_rectangle *)

\* Faulty variant: the radius is handed to the buffer calls unclamped.
clamp_radius_missing(r, w, h) == r

\* r = min(r, 0.5 * min(w, h))
clamp_radius(r, w, h) == Min(r, Min(w, h) \div 2)

\* Faulty variant: only a negative radius takes the early return, so a zero
\* radius goes through the two buffer calls.
rounded_rectangle_run_zero_buffered(width, height, xoff, yoff, radius) ==
    LET rect == _box(xoff, yoff - height, xoff + width, yoff)
    IN  IF radius < 0
        THEN [ret |-> rect, calls |-> <<>>]
        ELSE LET r == clamp_radius(radius, width, height)
             IN  [ret |-> buffer(buffer(rect, -r, 2), r, 1),
                  calls |-> << [distance |-> -r, join_style |-> 2],
                               [distance |-> r, join_style |-> 1] >>]

\* One run of _rounded_rectangle: the polygon it returns and the buffer calls
\* it makes on the way.
rounded_rectangle_run(width, height, xoff, yoff, radius) ==
    LET w == width
        h == height
        xmin == xoff
        xmax == xmin + w
        ymax == yoff
        ymin == ymax - h
        rect == _box(xmin, ymin, xmax, ymax)
    IN  IF radius <= 0
        THEN [ret |-> rect, calls |-> <<>>]
        ELSE LET r == clamp_radius(radius, w, h)
                 eroded == buffer(rect, -r, 2)
                 rounded == buffer(eroded, r, 1)
             IN  [ret |-> rounded,
                  calls |-> << [distance |-> -r, join_style |-> 2],
                               [distance |-> r, join_style |-> 1] >>]

_rounded_rectangle(width, height, xoff, yoff, radius) ==
    rounded_rectangle_run(width, height, xoff, yoff, radius).ret

----------------------------------------------------------------------------
(* The drawing helpers of the host framework (qiskit_metal.draw) *)

LineString(points) == [type |-> "LineString", coords |-> points]

\* shapely.wkt.loads of the text of a LINESTRING: the numbers are read in
\* pairs, one pair per point.
wkt_loads(text) ==
    [type |-> "LineString",
     coords |-> [i \in 1 .. (Len(text.numbers) \div 2) |->
                    <<text.numbers[2 * i - 1], text.numbers[2 * i]>>]]

\* draw.translate(geometry, xoff, yoff)
translate(g, xoff, yoff) ==
    [g EXCEPT !.coords = [i \in DOMAIN g.coords |->
                             <<g.coords[i][1] + xoff, g.coords[i][2] + yoff>>]]

\* draw.scale(geometry, xfact, yfact, origin=(0, 0)): a rounded corner is
\* scaled with the ring it belongs to.
scale(g, xfact, yfact) ==
    LET moved == [g EXCEPT !.coords = [i \in DOMAIN g.coords |->
                     <<g.coords[i][1] * xfact, g.coords[i][2] * yfact>>]]
    IN  IF g.type = "Polygon"
        THEN [moved EXCEPT !.rx = g.rx * Abs(xfact), !.ry = g.ry * Abs(yfact)]
        ELSE moved

\* One point turned about the origin by a multiple of 90 degrees.
rotate_point(pt, angle) ==
    CASE angle = 0 -> pt
      [] angle = 90 -> <<-pt[2], pt[1]>>
      [] angle = 180 -> <<-pt[1], -pt[2]>>
      [] angle = 270 -> <<pt[2], -pt[1]>>

\* draw.rotate(geometry, angle, origin=(0, 0)), angle in degrees
rotate(g, angle) ==
    LET moved == [g EXCEPT !.coords = [i \in DOMAIN g.coords |->
                     rotate_point(g.coords[i], angle)]]
    IN  IF g.type = "Polygon" /\ angle \in {90, 270}
        THEN [moved EXCEPT !.rx = g.ry, !.ry = g.rx]
        ELSE moved

\* draw.rotate_position(geometry, angle, pos): rotate about the origin, then
\* translate to pos.
rotate_position(g, angle, pos) == translate(rotate(g, angle), pos[1], pos[2])

\* The helpers applied to a list of geometries, as the source calls them.
translate_all(gs, xoff, yoff) == [i \in DOMAIN gs |-> translate(gs[i], xoff, yoff)]
scale_all(gs, xfact, yfact) == [i \in DOMAIN gs |-> scale(gs[i], xfact, yfact)]
rotate_all(gs, angle) == [i \in DOMAIN gs |-> rotate(gs[i], angle)]
rotate_position_all(gs, angle, pos) ==
    [i \in DOMAIN gs |-> rotate_position(gs[i], angle, pos)]

\* QComponent.add_qgeometry(kind, {name: geometry}, subtract=False, **width):
\* one table row; a row given no width carries <<>>.
qgeometry_row(kind, name, geom, subtract, width) ==
    [kind |-> kind, name |-> name, geom |-> geom, subtract |-> subtract,
     width |-> width]

\* QComponent.add_pin(name, points, width, input_as_norm=True)
pin_row(name, points, width) ==
    [name |-> name, points |-> points, width |-> width, input_as_norm |-> TRUE]

----------------------------------------------------------------------------
(* TransmonPocket6Rounded: options *)

None == <<>>
Some(v) == <<v>>

\* Faulty variant: the connector radius falls back on the pocket override
\* instead of its own.
_get_radii_shared_override(o) ==
    LET base == o.corner_radius
        pad_r == IF o.pad_corner_radius = None THEN base
                 ELSE o.pad_corner_radius[1]
        pk_r == IF o.pocket_corner_radius = None THEN base
                ELSE o.pocket_corner_radius[1]
        cn_r == IF o.pocket_corner_radius = None THEN base
                ELSE o.pocket_corner_radius[1]
    IN  <<pad_r, pk_r, cn_r>>

\* _get_radii: (pad_r, pk_r, cn_r)
_get_radii(o) ==
    LET base == o.corner_radius
        pad_r == IF o.pad_corner_radius = None THEN base
                 ELSE o.pad_corner_radius[1]
        pk_r == IF o.pocket_corner_radius = None THEN base
                ELSE o.pocket_corner_radius[1]
        cn_r == IF o.connector_corner_radius = None THEN base
                ELSE o.connector_corner_radius[1]
    IN  <<pad_r, pk_r, cn_r>>

----------------------------------------------------------------------------
(* make_pocket *)

\* pad = _rounded_rectangle(pad_width, pad_height, -pad_width / 2, +pad_height / 2, pad_r)
pocket_pad(o, pad_r) ==
    _rounded_rectangle(o.pad_width, o.pad_height,
                       -(o.pad_width \div 2), o.pad_height \div 2, pad_r)

pocket_pad_top(o, pad_r) ==
    translate(pocket_pad(o, pad_r), 0, (o.pad_height + o.pad_gap) \div 2)

\* Faulty variant: the bottom pad is moved up like the top one.
pocket_pad_bot_not_mirrored(o, pad_r) ==
    translate(pocket_pad(o, pad_r), 0, (o.pad_height + o.pad_gap) \div 2)

pocket_pad_bot(o, pad_r) ==
    translate(pocket_pad(o, pad_r), 0, -((o.pad_height + o.pad_gap) \div 2))

pocket_rect_jj(o) ==
    LineString(<< <<0, -(o.pad_gap \div 2)>>, <<0, o.pad_gap \div 2>> >>)

pocket_rect_pk(o, pk_r) ==
    _rounded_rectangle(o.pocket_width, o.pocket_height,
                       -(o.pocket_width \div 2), o.pocket_height \div 2, pk_r)

\* polys = [rect_jj, pad_top, pad_bot, rect_pk], rotated about the origin and
\* translated to (pos_x, pos_y).
pocket_polys(o) ==
    LET radii == _get_radii(o)
        pad_r == radii[1]
        pk_r == radii[2]
        polys == << pocket_rect_jj(o), pocket_pad_top(o, pad_r),
                    pocket_pad_bot(o, pad_r), pocket_rect_pk(o, pk_r) >>
    IN  translate_all(rotate_all(polys, o.orientation), o.pos_x, o.pos_y)

\* The three add_qgeometry calls of make_pocket, as rows in call order.
pocket_rows(o) ==
    LET polys == pocket_polys(o)
    IN  << qgeometry_row("poly", "pad_top", polys[2], FALSE, <<>>),
           qgeometry_row("poly", "pad_bot", polys[3], FALSE, <<>>),
           qgeometry_row("poly", "rect_pk", polys[4], TRUE, <<>>),
           qgeometry_row("junction", "rect_jj", polys[1], FALSE,
                         <<o.inductor_width>>) >>

----------------------------------------------------------------------------
(* make_connection_pad *)

\* Faulty variant: the warning needs both flags out of range.
loc_out_of_range_both(loc_W, loc_H) ==
    loc_W \notin {-1, 1, 0} /\ loc_H \notin {-1, 1}

\* loc_W not in [-1.0, +1.0, 0.0] or loc_H not in [-1.0, +1.0]
loc_out_of_range(loc_W, loc_H) ==
    loc_W \notin {-1, 1, 0} \/ loc_H \notin {-1, 1}

loc_warning(loc_W, loc_H) ==
    [level |-> "info",
     msg |-> "Warning: loc_W should be -1, 0, +1 and loc_H should be -1, +1.",
     loc_W |-> loc_W, loc_H |-> loc_H]

\* The connector pad of either branch, in the connector's own coordinates.
connector_pad_local(c, cn_r) ==
    IF c.loc_W # 0
    THEN _rounded_rectangle(c.pad_width, c.pad_height,
                            -(c.pad_width \div 2), c.pad_height \div 2, cn_r)
    ELSE _rounded_rectangle(c.pad_width, c.pad_height,
                            0, c.pad_height \div 2, cn_r)

\* The text the f-string of the loc_W != 0 branch builds: the tag, then the
\* eight numbers in the order they are written.
connector_wire_wkt(o, c) ==
    [tag |-> "LINESTRING",
     numbers |-> << 0, c.pad_cpw_shift + c.cpw_width \div 2,
                    c.pad_cpw_extent, c.pad_cpw_shift + c.cpw_width \div 2,
                    (o.pocket_width - o.pad_width) \div 2 - c.pocket_extent,
                    c.pad_cpw_shift + c.cpw_width \div 2 + c.pocket_rise,
                    (o.pocket_width - o.pad_width) \div 2 + c.cpw_extend,
                    c.pad_cpw_shift + c.cpw_width \div 2 + c.pocket_rise >>]

\* The wire path of either branch, in the connector's own coordinates.
connector_wire_local(o, c) ==
    IF c.loc_W # 0
    THEN wkt_loads(connector_wire_wkt(o, c))
    ELSE LineString(<< <<0, c.pad_height>>,
                       <<0, (o.pocket_width \div 2 - o.pad_height
                               - o.pad_gap \div 2 - c.pad_gap) + c.cpw_extend>> >>)

\* Faulty variant: loc_W = 0 is used as the x scale factor.
loc_Woff_zero_kept(loc_W) == loc_W

\* loc_Woff = 1.0 if loc_W == 0 else loc_W
loc_Woff(loc_W) == IF loc_W = 0 THEN 1 ELSE loc_W

\* objects = [connector_pad, connector_wire_path] after draw.scale,
\* draw.translate and draw.rotate_position.
connector_objects(o, c) ==
    LET cn_r == _get_radii(o)[3]
        objects == << connector_pad_local(c, cn_r), connector_wire_local(o, c) >>
        scaled == scale_all(objects, loc_Woff(c.loc_W), c.loc_H)
        moved == translate_all(scaled,
                     (c.loc_W * o.pad_width) \div 2,
                     c.loc_H * (o.pad_height + o.pad_gap \div 2 + c.pad_gap))
    IN  rotate_position_all(moved, o.orientation, <<o.pos_x, o.pos_y>>)

\* Faulty variant: the gap is counted on one side only.
wire_sub_width_one_gap(c) == c.cpw_width + c.cpw_gap

\* width = cpw_width + 2 * pc.cpw_gap
wire_sub_width(c) == c.cpw_width + 2 * c.cpw_gap

\* The three add_qgeometry calls of make_connection_pad, as rows in call order.
connector_rows(o, c) ==
    LET objects == connector_objects(o, c)
    IN  << qgeometry_row("poly", c.name \o "_connector_pad", objects[1],
                         FALSE, <<>>),
           qgeometry_row("path", c.name \o "_wire", objects[2], FALSE,
                         <<c.cpw_width>>),
           qgeometry_row("path", c.name \o "_wire_sub", objects[2], TRUE,
                         <<wire_sub_width(c)>>) >>

\* points[-2:] of the wire's coordinates
last_two(coords) == SubSeq(coords, Len(coords) - 1, Len(coords))

connector_pin(o, c) ==
    pin_row(c.name, last_two(connector_objects(o, c)[2].coords), c.cpw_width)

----------------------------------------------------------------------------
(* The options the model draws from *)

Overrides == {None, Some(0), Some(1)}

Placements ==
    { [orientation |-> 0, pos_x |-> 0, pos_y |-> 0],
      [orientation |-> 90, pos_x |-> 3, pos_y |-> -1] }

\* Two settings of a connection pad's lengths.
PadProfiles ==
    { [pad_gap |-> 2, pad_width |-> 6, pad_height |-> 4, pad_cpw_shift |-> 0,
       pad_cpw_extent |-> 3, cpw_width |-> 2, cpw_gap |-> 1, cpw_extend |-> 5,
       pocket_extent |-> 1, pocket_rise |-> 0],
      [pad_gap |-> 4, pad_width |-> 4, pad_height |-> 2, pad_cpw_shift |-> 1,
       pad_cpw_extent |-> 2, cpw_width |-> 4, cpw_gap |-> 3, cpw_extend |-> 7,
       pocket_extent |-> 2, pocket_rise |-> 3] }

LocWs == {-1, 0, 1, 2}
LocHs == {-1, 1, 2}

PadNames == <<"a", "b">>

ConnectionPad(name) ==
    { [name |-> name, pad_gap |-> f.pad_gap, pad_width |-> f.pad_width,
       pad_height |-> f.pad_height, pad_cpw_shift |-> f.pad_cpw_shift,
       pad_cpw_extent |-> f.pad_cpw_extent, cpw_width |-> f.cpw_width,
       cpw_gap |-> f.cpw_gap, cpw_extend |-> f.cpw_extend,
       pocket_extent |-> f.pocket_extent, pocket_rise |-> f.pocket_rise,
       loc_W |-> lw, loc_H |-> lh] :
      f \in PadProfiles, lw \in LocWs, lh \in LocHs }

\* options.connection_pads: the pads in the order the mapping lists them.
ConnectionPads ==
    { <<>> }
    \cup { <<a>> : a \in ConnectionPad(PadNames[1]) }
    \cup { <<a, b>> : a \in ConnectionPad(PadNames[1]),
                      b \in ConnectionPad(PadNames[2]) }

Options ==
    { [pad_gap |-> 2, inductor_width |-> 1, pad_width |-> 8, pad_height |-> 4,
       pocket_width |-> 20, pocket_height |-> 16,
       corner_radius |-> cr, pad_corner_radius |-> pad,
       pocket_corner_radius |-> pk, connector_corner_radius |-> cn,
       orientation |-> pl.orientation, pos_x |-> pl.pos_x, pos_y |-> pl.pos_y,
       connection_pads |-> cps] :
      cr \in 0 .. MaxCornerRadius, pad \in Overrides, pk \in Overrides,
      cn \in Overrides, pl \in Placements, cps \in ConnectionPads }

NoOptions == [connection_pads |-> <<>>]
NoArgs == [width |-> 0, height |-> 0, xoff |-> 0, yoff |-> 0, radius |-> 0]

----------------------------------------------------------------------------
(* The component: make() *)

Init ==
    /\ p \in Options
    /\ qgeometry = <<>>
    /\ pins = <<>>
    /\ log = <<>>
    /\ pc = "make_pocket"
    /\ idx = 1
    /\ rr_args = NoArgs
    /\ rr_calls = <<>>
    /\ rr_out = EmptyPolygon
    /\ rr_pc = "idle"

make_pocket ==
    /\ pc = "make_pocket"
    /\ qgeometry' = qgeometry \o pocket_rows(p)
    /\ pc' = "make_connection_pads"
    /\ UNCHANGED <<p, pins, log, idx, rr_args, rr_calls, rr_out, rr_pc>>

\* One pass of the loop of make_connection_pads: make_connection_pad(name).
make_connection_pad ==
    /\ pc = "make_connection_pads"
    /\ idx <= Len(p.connection_pads)
    /\ LET c == p.connection_pads[idx]
       IN  /\ log' = IF loc_out_of_range(c.loc_W, c.loc_H)
                     THEN Append(log, loc_warning(c.loc_W, c.loc_H))
                     ELSE log
           /\ qgeometry' = qgeometry \o connector_rows(p, c)
           /\ pins' = Append(pins, connector_pin(p, c))
    /\ idx' = idx + 1
    /\ UNCHANGED <<p, pc, rr_args, rr_calls, rr_out, rr_pc>>

\* The loop of make_connection_pads is exhausted and make() returns.
make_return ==
    /\ pc = "make_connection_pads"
    /\ idx > Len(p.connection_pads)
    /\ pc' = "done"
    /\ UNCHANGED <<p, qgeometry, pins, log, idx, rr_args, rr_calls, rr_out, rr_pc>>

Next == make_pocket \/ make_connection_pad \/ make_return

Spec == Init /\ [][Next]_vars

----------------------------------------------------------------------------
(* Direct calls of _rounded_rectangle *)

Dims == { 2 * k : k \in 1 .. MaxHalfDim }

RRArgs ==
    [width : Dims, height : Dims, xoff : -MaxOff .. MaxOff,
     yoff : -MaxOff .. MaxOff, radius : -1 .. MaxRadius]

InitRR ==
    /\ rr_args \in RRArgs
    /\ rr_calls = <<>>
    /\ rr_out = EmptyPolygon
    /\ rr_pc = "call"
    /\ p = NoOptions
    /\ qgeometry = <<>>
    /\ pins = <<>>
    /\ log = <<>>
    /\ pc = "idle"
    /\ idx = 1

call_rounded_rectangle ==
    /\ rr_pc = "call"
    /\ LET run == rounded_rectangle_run(rr_args.width, rr_args.height,
                      rr_args.xoff, rr_args.yoff, rr_args.radius)
       IN  /\ rr_out' = run.ret
           /\ rr_calls' = run.calls
    /\ rr_pc' = "returned"
    /\ UNCHANGED <<p, qgeometry, pins, log, pc, idx, rr_args>>

NextRR == call_rounded_rectangle

SpecRR == InitRR /\ [][NextRR]_vars

----------------------------------------------------------------------------
(* Helpers of the properties *)

Sign(x) == IF x > 0 THEN 1 ELSE IF x < 0 THEN -1 ELSE 0

\* The effective radius the specification describes: the override when it is
\* set, the global corner_radius otherwise.
Effective(override, global) == IF override = None THEN global ELSE override[1]

\* The component-level rotation and translation, and its inverse.
Place(g) == rotate_position(g, p.orientation, <<p.pos_x, p.pos_y>>)
Unplace(g) ==
    rotate(translate(g, -p.pos_x, -p.pos_y), (360 - p.orientation) % 360)

Row(name) == CHOOSE r \in {qgeometry[i] : i \in DOMAIN qgeometry} : r.name = name
HasRow(name) == \E i \in DOMAIN qgeometry : qgeometry[i].name = name

\* The connection pads make_connection_pad has already handled.
Handled == IF pc = "make_pocket" THEN {} ELSE 1 .. (idx - 1)

\* The translation make_connection_pad applies to connector c.
ShiftX(c) == (c.loc_W * p.pad_width) \div 2
ShiftY(c) == c.loc_H * (p.pad_height + p.pad_gap \div 2 + c.pad_gap)

\* Geometry g of connector c taken back to the connector's own coordinates:
\* the component's placement, the connector's translation and the
\* connector's scale (by loc_W, or 1 when loc_W = 0, and by loc_H) undone in
\* turn.  The scale factors are never 0 in the model, and every coordinate
\* of a scaled shape is a multiple of its factor.
Local(g, c) ==
    LET xfact == IF c.loc_W = 0 THEN 1 ELSE c.loc_W
        yfact == c.loc_H
        back == translate(Unplace(g), -ShiftX(c), -ShiftY(c))
        coords == [i \in DOMAIN back.coords |->
                      <<back.coords[i][1] \div xfact, back.coords[i][2] \div yfact>>]
    IN  IF g.type = "Polygon"
        THEN [back EXCEPT !.coords = coords, !.rx = back.rx \div Abs(xfact),
                          !.ry = back.ry \div Abs(yfact)]
        ELSE [back EXCEPT !.coords = coords]

\* pt lies on the outline of polygon g.
OnOutline(g, pt) ==
    /\ ~is_empty(g)
    /\ LET xmin == SeqMin(Xs(g))
           xmax == SeqMax(Xs(g))
           ymin == SeqMin(Ys(g))
           ymax == SeqMax(Ys(g))
           dx == Max(Max(xmin - pt[1], pt[1] - xmax), 0)
           dy == Max(Max(ymin - pt[2], pt[2] - ymax), 0)
       IN  IF g.rx = 0 \/ g.ry = 0
           THEN /\ dx <= g.rx /\ dy <= g.ry
                /\ \/ pt[1] \in {xmin - g.rx, xmax + g.rx}
                   \/ pt[2] \in {ymin - g.ry, ymax + g.ry}
           ELSE (dx * g.ry) * (dx * g.ry) + (dy * g.rx) * (dy * g.rx)
                    = (g.rx * g.ry) * (g.rx * g.ry)

SharpCorners(a) ==
    { <<a.xoff, a.yoff - a.height>>, <<a.xoff + a.width, a.yoff - a.height>>,
      <<a.xoff + a.width, a.yoff>>, <<a.xoff, a.yoff>> }

HalfShortSide(a) == Min(a.width, a.height) \div 2

----------------------------------------------------------------------------
(* Properties of _rounded_rectangle, under SpecRR *)

\* C1: with radius <= 0 the call returns the sharp rectangle itself: a closed
\* ring over exactly the four corners (xoff, yoff - height),
\* (xoff + width, yoff - height), (xoff + width, yoff), (xoff, yoff), with no
\* rounded corner, and no buffer call is made.
C1_SharpRectangle ==
    (rr_pc = "returned" /\ rr_args.radius <= 0) =>
        /\ rr_calls = <<>>
        /\ rr_out.type = "Polygon"
        /\ rr_out.rx = 0 /\ rr_out.ry = 0
        /\ Len(rr_out.coords) = 5
        /\ rr_out.coords[1] = rr_out.coords[5]
        /\ {rr_out.coords[i] : i \in 1 .. 4} = SharpCorners(rr_args)
        /\ Cardinality({rr_out.coords[i] : i \in 1 .. 4}) = 4

C1_Witness ==
    rr_pc = "returned" /\ rr_args.radius < 0 /\ rr_args.xoff = 1
        /\ rr_args.width # rr_args.height

\* C2: a radius above half the shorter side gives the output of a call with
\* exactly half the shorter side, and the distance handed to the erode and
\* dilate buffer calls is min(radius, min(width, height) / 2).
C2_RadiusClamped ==
    (rr_pc = "returned" /\ rr_args.radius > HalfShortSide(rr_args)) =>
        /\ rr_out = _rounded_rectangle(rr_args.width, rr_args.height,
                        rr_args.xoff, rr_args.yoff, HalfShortSide(rr_args))
        /\ Len(rr_calls) = 2
        /\ rr_calls[1].distance = -HalfShortSide(rr_args)
        /\ rr_calls[2].distance = HalfShortSide(rr_args)

C2_Witness ==
    rr_pc = "returned" /\ rr_args.radius > HalfShortSide(rr_args)
        /\ Len(rr_calls) = 2

\* C3: with radius > 0 the output's bounding box is that of the sharp
\* rectangle and none of the four sharp corners belongs to the output.
C3_BoundingBoxKept ==
    (rr_pc = "returned" /\ rr_args.radius > 0) =>
        /\ bounds(rr_out) = << rr_args.xoff, rr_args.yoff - rr_args.height,
                               rr_args.xoff + rr_args.width, rr_args.yoff >>
        /\ \A c \in SharpCorners(rr_args) : ~covers(rr_out, c)

----------------------------------------------------------------------------
(* Properties of the component, under Spec *)

\* C4: when every effective radius is 0, make_pocket registers, up to the
\* component's rotation and translation, pad_top as the rectangle
\* [-pad_width/2, pad_width/2] x [pad_gap/2, pad_gap/2 + pad_height], pad_bot
\* as its mirror image below the x axis, rect_jj as the segment from
\* (0, -pad_gap/2) to (0, +pad_gap/2), and rect_pk as the
\* pocket_width x pocket_height rectangle centred on the origin.
C4_SharpBaseline ==
    ( /\ pc # "make_pocket"
      /\ p.corner_radius = 0
      /\ p.pad_corner_radius \in {None, Some(0)}
      /\ p.pocket_corner_radius \in {None, Some(0)}
      /\ p.connector_corner_radius \in {None, Some(0)} ) =>
        /\ Row("pad_top").geom =
               Place(_box(-(p.pad_width \div 2), p.pad_gap \div 2,
                          p.pad_width \div 2, p.pad_gap \div 2 + p.pad_height))
        /\ Row("pad_bot").geom =
               Place(_box(-(p.pad_width \div 2), -(p.pad_gap \div 2) - p.pad_height,
                          p.pad_width \div 2, -(p.pad_gap \div 2)))
        /\ Row("rect_jj").geom =
               Place(LineString(<< <<0, -(p.pad_gap \div 2)>>,
                                   <<0, p.pad_gap \div 2>> >>))
        /\ Row("rect_pk").geom =
               Place(_box(-(p.pocket_width \div 2), -(p.pocket_height \div 2),
                          p.pocket_width \div 2, p.pocket_height \div 2))

C4_Witness ==
    /\ pc = "done"
    /\ p.corner_radius = 0
    /\ p.pad_corner_radius = Some(0)
    /\ p.pocket_corner_radius = None
    /\ p.connector_corner_radius = None
    /\ p.orientation = 90
    /\ Row("pad_top").geom.rx = 0
    /\ bounds(Unplace(Row("pad_bot").geom))[4] = -(p.pad_gap \div 2)

\* C5: the placement-flag check is not fatal.  The log holds exactly one
\* warning per handled connector whose loc_W is outside {-1, 0, 1} or whose
\* loc_H is outside {-1, 1}, in order, and none for the others; every handled
\* connector, in range or not, has its pad, wire, subtractive wire and pin
\* registered, and its wire starts where the placement arithmetic puts it
\* with loc_W and loc_H used as they are.
C5_WarningNotFatal ==
    LET cps == p.connection_pads
        bad == { i \in Handled : cps[i].loc_W \notin {-1, 0, 1}
                                   \/ cps[i].loc_H \notin {-1, 1} }
    IN  /\ Len(log) = Cardinality(bad)
        /\ \A k \in DOMAIN log :
               \E i \in bad :
                   /\ Cardinality({j \in bad : j <= i}) = k
                   /\ log[k].loc_W = cps[i].loc_W
                   /\ log[k].loc_H = cps[i].loc_H
        /\ \A i \in Handled :
               LET c == cps[i]
                   y0 == IF c.loc_W # 0
                         THEN c.pad_cpw_shift + c.cpw_width \div 2
                         ELSE c.pad_height
               IN  /\ HasRow(c.name \o "_connector_pad")
                   /\ HasRow(c.name \o "_wire")
                   /\ HasRow(c.name \o "_wire_sub")
                   /\ \E k \in DOMAIN pins : pins[k].name = c.name
                   /\ Unplace(Row(c.name \o "_wire").geom).coords[1] =
                          << (c.loc_W * p.pad_width) \div 2,
                             c.loc_H * y0
                               + c.loc_H * (p.pad_height + p.pad_gap \div 2
                                              + c.pad_gap) >>

C5_Witness ==
    /\ pc = "done"
    /\ Len(p.connection_pads) = 2
    /\ p.connection_pads[1].loc_W = 2
    /\ p.connection_pads[1].loc_H = 1
    /\ p.connection_pads[2].loc_W = 1
    /\ p.connection_pads[2].loc_H = -1
    /\ Len(log) = 1
    /\ Len(pins) = 2

\* C6: each of the three radii is its own override when that is set and the
\* global corner_radius otherwise, whatever the other two overrides are; the
\* island pads are built with the pad radius, the pocket with the pocket
\* radius and every connector pad with the connector radius.
C6_RadiusResolution ==
    (pc # "make_pocket") =>
        LET pad_r == Effective(p.pad_corner_radius, p.corner_radius)
            pk_r == Effective(p.pocket_corner_radius, p.corner_radius)
            cn_r == Effective(p.connector_corner_radius, p.corner_radius)
            pad == _rounded_rectangle(p.pad_width, p.pad_height,
                       -(p.pad_width \div 2), p.pad_height \div 2, pad_r)
        IN  /\ Row("pad_top").geom =
                   Place(translate(pad, 0, (p.pad_height + p.pad_gap) \div 2))
            /\ Row("pad_bot").geom =
                   Place(translate(pad, 0, -((p.pad_height + p.pad_gap) \div 2)))
            /\ Row("rect_pk").geom =
                   Place(_rounded_rectangle(p.pocket_width, p.pocket_height,
                             -(p.pocket_width \div 2), p.pocket_height \div 2,
                             pk_r))
            /\ \A i \in Handled :
                   LET c == p.connection_pads[i]
                       xoff == IF c.loc_W # 0 THEN -(c.pad_width \div 2) ELSE 0
                       local == _rounded_rectangle(c.pad_width, c.pad_height,
                                    xoff, c.pad_height \div 2, cn_r)
                   IN  Row(c.name \o "_connector_pad").geom =
                           Place(translate(
                               scale(local, IF c.loc_W = 0 THEN 1 ELSE c.loc_W,
                                     c.loc_H),
                               ShiftX(c), ShiftY(c)))

C6_Witness ==
    /\ pc = "done"
    /\ Len(p.connection_pads) = 1
    /\ p.corner_radius = 0
    /\ p.pad_corner_radius = Some(1)
    /\ p.pocket_corner_radius = None
    /\ p.connector_corner_radius = Some(1)
    /\ p.connection_pads[1].pad_height = 4
    /\ Row("pad_top").geom.rx = 1
    /\ Row("rect_pk").geom.rx = 0
    /\ Row("a_connector_pad").geom.rx = 1


\* C7: in the connector's own coordinates (before scale and translation) the
\* connector pad spans x in [-pad_width/2, +pad_width/2] when loc_W = 0 and
\* lies on one side of the y axis when loc_W # 0.
C7_PadAnchoring ==
    \A i \in Handled :
        LET c == p.connection_pads[i]
            pad == Local(Row(c.name \o "_connector_pad").geom, c)
            b == bounds(pad)
        IN  ~is_empty(pad) =>
                IF c.loc_W = 0
                THEN b[1] = -(c.pad_width \div 2) /\ b[3] = c.pad_width \div 2
                ELSE b[1] >= 0 \/ b[3] <= 0

\* C8 as stated: the pad and the wire are scaled by the signs of loc_W
\* (1 for loc_W = 0) and loc_H, so both factors are +1 or -1, then
\* translated by (loc_W * pad_width/2, loc_H * (pad_height + pad_gap/2 +
\* connector pad_gap)), then rotated and translated with the component.
C8_MirrorBySign ==
    \A i \in Handled :
        LET c == p.connection_pads[i]
            cn_r == Effective(p.connector_corner_radius, p.corner_radius)
            xfact == IF c.loc_W = 0 THEN 1 ELSE Sign(c.loc_W)
            yfact == Sign(c.loc_H)
        IN  /\ xfact \in {-1, 1}
            /\ yfact \in {-1, 1}
            /\ Row(c.name \o "_connector_pad").geom =
                   Place(translate(scale(connector_pad_local(c, cn_r),
                                         xfact, yfact),
                                   ShiftX(c), ShiftY(c)))
            /\ Row(c.name \o "_wire").geom =
                   Place(translate(scale(connector_wire_local(p, c),
                                         xfact, yfact),
                                   ShiftX(c), ShiftY(c)))

\* C8, amended: the pad and the wire are scaled by loc_W itself (1 for
\* loc_W = 0) and by loc_H itself, then translated by (loc_W * pad_width/2,
\* loc_H * (pad_height + pad_gap/2 + connector pad_gap)), then rotated and
\* translated with the component; the two factors are +1 or -1, a pure
\* mirroring, exactly when loc_W is in {-1, 0, 1} and loc_H is in {-1, 1}.
C8_ScaleByFlag ==
    \A i \in Handled :
        LET c == p.connection_pads[i]
            cn_r == Effective(p.connector_corner_radius, p.corner_radius)
            xfact == IF c.loc_W = 0 THEN 1 ELSE c.loc_W
            yfact == c.loc_H
            pad == Row(c.name \o "_connector_pad").geom
            wire == Row(c.name \o "_wire").geom
        IN  /\ pad = Place(translate(scale(connector_pad_local(c, cn_r),
                                            xfact, yfact),
                                      ShiftX(c), ShiftY(c)))
            /\ wire = Place(translate(scale(connector_wire_local(p, c),
                                             xfact, yfact),
                                       ShiftX(c), ShiftY(c)))
            /\ (c.loc_W \in {-1, 0, 1} /\ c.loc_H \in {-1, 1}) =>
                   /\ xfact \in {-1, 1} /\ yfact \in {-1, 1}
                   /\ ~is_empty(pad) =>
                          LET lb == bounds(connector_pad_local(c, cn_r))
                              rb == bounds(Unplace(pad))
                          IN  /\ rb[3] - rb[1] = lb[3] - lb[1]
                              /\ rb[4] - rb[2] = lb[4] - lb[2]

C8_Witness ==
    /\ pc = "done"
    /\ Len(p.connection_pads) = 2
    /\ p.connection_pads[1].loc_W = 0
    /\ p.connection_pads[1].loc_H = -1
    /\ p.connection_pads[2].loc_W = 2
    /\ p.orientation = 90
    /\ ~is_empty(Row("a_connector_pad").geom)
    /\ ~is_empty(Row("b_connector_pad").geom)
    /\ LET b == bounds(Unplace(Row("b_connector_pad").geom))
       IN  b[3] - b[1] = 2 * p.connection_pads[2].pad_width

\* C9: once make() has returned on a component with N connection pads the
\* registrations are, in order, pad_top and pad_bot (additive polygons),
\* rect_pk (subtractive polygon), rect_jj (junction of width inductor_width)
\* and then, per connector in order, <name>_connector_pad (additive
\* polygon), <name>_wire (additive path of width cpw_width) and
\* <name>_wire_sub (subtractive path of width cpw_width + 2 * cpw_gap over
\* the same geometry as <name>_wire), with one pin <name> of width cpw_width
\* on the last two points of that wire; nothing else is registered.
C9_Registrations ==
    (pc = "done") =>
        LET n == Len(p.connection_pads)
            head(r) == <<r.kind, r.name, r.subtract, r.width>>
        IN  /\ Len(qgeometry) = 4 + 3 * n
            /\ Len(pins) = n
            /\ head(qgeometry[1]) = <<"poly", "pad_top", FALSE, <<>> >>
            /\ head(qgeometry[2]) = <<"poly", "pad_bot", FALSE, <<>> >>
            /\ head(qgeometry[3]) = <<"poly", "rect_pk", TRUE, <<>> >>
            /\ head(qgeometry[4]) =
                   <<"junction", "rect_jj", FALSE, <<p.inductor_width>> >>
            /\ qgeometry[4].geom.type = "LineString"
            /\ \A k \in 1 .. 3 : qgeometry[k].geom.type = "Polygon"
            /\ \A i \in 1 .. n :
                   LET c == p.connection_pads[i]
                       pad == qgeometry[3 * i + 2]
                       wire == qgeometry[3 * i + 3]
                       sub == qgeometry[3 * i + 4]
                       m == Len(wire.geom.coords)
                   IN  /\ head(pad) =
                              <<"poly", c.name \o "_connector_pad", FALSE, <<>> >>
                       /\ pad.geom.type = "Polygon"
                       /\ head(wire) =
                              <<"path", c.name \o "_wire", FALSE, <<c.cpw_width>> >>
                       /\ wire.geom.type = "LineString"
                       /\ head(sub) =
                              <<"path", c.name \o "_wire_sub", TRUE,
                                <<c.cpw_width + 2 * c.cpw_gap>> >>
                       /\ sub.geom = wire.geom
                       /\ pins[i].name = c.name
                       /\ pins[i].width = c.cpw_width
                       /\ m >= 2
                       /\ pins[i].points =
                              <<wire.geom.coords[m - 1], wire.geom.coords[m]>>

C9_Witness ==
    /\ pc = "done"
    /\ Len(p.connection_pads) = 2
    /\ Len(qgeometry) = 10
    /\ Len(pins) = 2
    /\ p.connection_pads[1].loc_W = 0
    /\ p.connection_pads[2].loc_W = -1
    /\ p.connection_pads[1].cpw_gap # p.connection_pads[2].cpw_gap

\* C10: in the connector's own coordinates the wire has exactly four points
\* when loc_W # 0: (0, y), (pad_cpw_extent, y),
\* ((pocket_width - pad_width)/2 - pocket_extent, y + pocket_rise) and
\* ((pocket_width - pad_width)/2 + cpw_extend, y + pocket_rise); and exactly
\* two points when loc_W = 0: a segment on x = 0 whose first point lies on
\* the outline of the connector pad of the same branch and whose last point
\* is at y = (pocket_width/2 - pad_height - pad_gap/2 - connector pad_gap)
\* + cpw_extend.
C10_WirePath ==
    \A i \in Handled :
        LET c == p.connection_pads[i]
            pad == Local(Row(c.name \o "_connector_pad").geom, c)
            wire == Local(Row(c.name \o "_wire").geom, c)
            y == c.pad_cpw_shift + c.cpw_width \div 2
            edge == (p.pocket_width - p.pad_width) \div 2
        IN  IF c.loc_W # 0
            THEN wire.coords =
                     << <<0, y>>, <<c.pad_cpw_extent, y>>,
                        <<edge - c.pocket_extent, y + c.pocket_rise>>,
                        <<edge + c.cpw_extend, y + c.pocket_rise>> >>
            ELSE /\ Len(wire.coords) = 2
                 /\ wire.coords[1][1] = 0
                 /\ wire.coords[2] =
                        <<0, (p.pocket_width \div 2 - p.pad_height
                                - p.pad_gap \div 2 - c.pad_gap) + c.cpw_extend>>
                 /\ ~is_empty(pad) => OnOutline(pad, wire.coords[1])

====
